---- MODULE Spec2Model ----
(***************************************************************************)
(* MCP-Dynamic-Loader: the startup tool loader of main.py and the Docker   *)
(* facade of tools/docker_tool.py.                                         *)
(*                                                                         *)
(* Two specifications:                                                     *)
(*   LoadSpec  load_tools_dynamic() scanning a tools directory;            *)
(*   Spec      the facade tools of docker_tool.py invoked one at a time by *)
(*             the dispatcher against a model of the container engine and  *)
(*             of the local staging directory.                             *)
(*                                                                         *)
(* Texts are modelled as tuples <<prefix, detail, ...>>: the prefix is the *)
(* fixed part of the Python f-string, the rest its interpolated values.    *)
(* Identifiers and file names are sequences of tokens, so that startswith  *)
(* and endswith are computed on the first and last token.                  *)
(***************************************************************************)
EXTENDS Integers, Sequences, FiniteSets, TLC

VARIABLES
    \* ---- main.py -------------------------------------------------------
    toolsDirExists, \* os.path.exists(tools_dir)
    listing,        \* os.listdir(tools_dir): the files of the directory
    importOutcome,  \* what importing each module does: "ok", "Exception", "BaseException"
    badReg,         \* per module: index of the member whose registration raises (0: none)
    todo,           \* files os.listdir() has still to yield (any order)
    registered,     \* functions mcp.tool() has registered
    invoked,        \* tool handlers that have been called
    imported,       \* modules importlib.import_module was called on
    reported,       \* file names of the "Error loading" lines on stderr
    warned,         \* the "directory not found" warning was printed
    pc,             \* "start", "loading", "done", "crashed" (exception left load_tools_dynamic)
    \* ---- tools/docker_tool.py -------------------------------------------
    client,         \* _client is an engine handle (TRUE) or None (FALSE)
    containers,     \* the engine's containers: id -> [name, status, ports, image]
    nextId,         \* the id the engine gives the next container
    removedIds,     \* ids of containers the engine has deleted
    images,         \* image tags in the engine's local store
    dirExists,      \* /AstrBot/data/data_temp exists
    files,          \* the files in /AstrBot/data/data_temp
    last            \* the last tool invocation: tool, arguments, result, engine calls

loadVars == <<toolsDirExists, listing, importOutcome, badReg, todo, registered, invoked,
              imported, reported, warned, pc>>
toolVars == <<client, containers, nextId, removedIds, images, dirExists, files, last>>
vars == <<loadVars, toolVars>>

(***************************************************************************)
(* Bounds                                                                  *)
(***************************************************************************)
\* containers the engine ever holds, the one it starts with included
MaxContainers == 1

(***************************************************************************)
(* main.py: load_tools_dynamic                                             *)
(***************************************************************************)
\* The files a tools directory may hold.
DockerToolFile == <<"docker_tool", ".py">>
ExtraToolFile == <<"extra_tool", ".py">>
PrivateFile == <<"_", "scratch", ".py">>
InitFile == <<"__", "init__", ".py">>
NotesFile == <<"notes", ".txt">>
Files == {DockerToolFile, ExtraToolFile, PrivateFile, InitFile, NotesFile}

\* filename.endswith(".py")
EndsWithPy(filename) == filename[Len(filename)] = ".py"

\* filename.startswith("__")
StartsWithDunder(filename) == filename[1] = "__"

\* name.startswith("_")
StartsWithUnderscore(name) == name[1] \in {"_", "__"}

\* module_name = filename[:-3]
ModuleName(filename) == SubSeq(filename, 1, Len(filename) - 1)

\* f"tools.{module_name}", the __name__ of the imported module
QualifiedName(module_name) == <<"tools">> \o module_name

\* A function object: its identifier and the module it was defined in.
Func(name, module) == [name |-> name, module |-> module]

\* inspect.getmembers(module, inspect.isfunction): the module's function
\* attributes sorted by name ("_" sorts before the lower-case letters).
Members(filename) ==
    IF filename = DockerToolFile THEN
        LET m == QualifiedName(ModuleName(DockerToolFile)) IN
        << Func(<<"_", "check_client">>, m),
           Func(<<"docker_container_action">>, m),
           Func(<<"docker_exec_run">>, m),
           Func(<<"docker_list_containers">>, m),
           Func(<<"docker_run_container">>, m) >>
    ELSE IF filename = ExtraToolFile THEN
        LET m == QualifiedName(ModuleName(ExtraToolFile)) IN
        << Func(<<"_", "format">>, m),
           Func(<<"dumps">>, <<"json">>),          \* from json import dumps
           Func(<<"extra_ping">>, m),
           Func(<<"extra_stat">>, m) >>
    ELSE IF filename = PrivateFile THEN
        LET m == QualifiedName(ModuleName(PrivateFile)) IN
        << Func(<<"scratch_tool">>, m) >>
    ELSE << >>

\* the filter of the for loop over os.listdir
IsCandidate(filename) == EndsWithPy(filename) /\ ~StartsWithDunder(filename)

\* Qualifies without the test of the defining module
QualifiesAnyModule(func, module) == ~StartsWithUnderscore(func.name)

\* func.__module__ == module.__name__ and not name.startswith("_")
Qualifies(func, module) ==
    func.module = module /\ ~StartsWithUnderscore(func.name)

\* mcp.tool()(func): registers func under its bare name and calls nothing.
Register(reg, inv, func) == [registered |-> reg \cup {func}, invoked |-> inv]

\* The inner for loop from member i on; bad is the index of the member whose
\* registration raises. Returns the registry, the handlers called and
\* whether an Exception ended the loop.
RECURSIVE RegisterFrom(_, _, _, _, _, _)
RegisterFrom(members, module, i, bad, reg, inv) ==
    IF i > Len(members) THEN [registered |-> reg, invoked |-> inv, exc |-> FALSE]
    ELSE IF ~Qualifies(members[i], module)
         THEN RegisterFrom(members, module, i + 1, bad, reg, inv)
    ELSE IF i = bad THEN [registered |-> reg, invoked |-> inv, exc |-> TRUE]
    ELSE LET r == Register(reg, inv, members[i])
         IN  RegisterFrom(members, module, i + 1, bad, r.registered, r.invoked)

\* except Exception as e: an Exception is caught, any other BaseException
\* (SystemExit, KeyboardInterrupt) is not.
Caught(kind) == kind = "Exception"

\* One iteration of the for loop over os.listdir(tools_dir).
LoadFile(filename) ==
    /\ pc = "loading"
    /\ filename \in todo
    /\ todo' = todo \ {filename}
    /\ UNCHANGED <<toolsDirExists, listing, importOutcome, badReg, warned, toolVars>>
    /\ IF ~IsCandidate(filename)
       THEN UNCHANGED <<registered, invoked, imported, reported, pc>>
       ELSE LET module == QualifiedName(ModuleName(filename)) IN
            /\ imported' = imported \cup {module}
            /\ IF importOutcome[filename] # "ok"
               THEN /\ UNCHANGED <<registered, invoked>>
                    /\ IF Caught(importOutcome[filename])
                       THEN reported' = reported \cup {filename} /\ pc' = pc
                       ELSE reported' = reported /\ pc' = "crashed"
               ELSE LET r == RegisterFrom(Members(filename), module, 1,
                                          badReg[filename], registered, invoked) IN
                    /\ registered' = r.registered
                    /\ invoked' = r.invoked
                    /\ reported' = IF r.exc THEN reported \cup {filename} ELSE reported
                    /\ pc' = pc

\* The entry of load_tools_dynamic: the directory check.
LoadStart ==
    /\ pc = "start"
    /\ IF toolsDirExists
       THEN pc' = "loading" /\ warned' = warned
       ELSE pc' = "done" /\ warned' = TRUE
    /\ UNCHANGED <<toolsDirExists, listing, importOutcome, badReg, todo, registered,
                   invoked, imported, reported, toolVars>>

\* os.listdir is exhausted: load_tools_dynamic returns.
LoadFinish ==
    /\ pc = "loading"
    /\ todo = {}
    /\ pc' = "done"
    /\ UNCHANGED <<toolsDirExists, listing, importOutcome, badReg, todo, registered,
                   invoked, imported, reported, warned, toolVars>>

(***************************************************************************)
(* tools/docker_tool.py: values                                            *)
(***************************************************************************)
\* None
None == "<None>"

\* An exception: its class and str(e). NoErr: nothing was raised.
Err(cls, text) == [cls |-> cls, text |-> text]
NoErr == Err("none", "")
DaemonError == Err("APIError", "500 Server Error: daemon error")
NotFound(what) == Err("NotFound", "404 Client Error: no such " \o what)
Conflict(why) == Err("APIError", "409 Client Error: conflict: " \o why)
OSError(what) == Err("OSError", "Permission denied: " \o what)

\* One call to the engine client or to the local filesystem, with the
\* exception it raised.
Call(op, err) == [op |-> op, err |-> err]

\* The operations of the calls of an invocation, in order.
Ops(calls) == [i \in 1..Len(calls) |-> calls[i].op]

\* The engine's state and the staging directory, as an invocation sees and
\* leaves them.
Cur == [cs |-> containers, nid |-> nextId, rem |-> removedIds,
        imgs |-> images, dx |-> dirExists, fl |-> files]

\* A Python value of the ports argument: its type, its length (for an int,
\* its value) and, for a dict, its items.
Value(type, size, items) == [type |-> type, size |-> size, items |-> items]
NoValue == Value("none", 0, <<>>)

\* bool(v)
Truthy(v) == v.size # 0

\* What an invocation did: the text returned (or the exception that left
\* it), the calls it made, the state it left and the ports value it handed
\* to containers.run.
Return(res, calls, st) ==
    [res |-> res, exc |-> NoErr, calls |-> calls, st |-> st, handed |-> NoValue]
Raise(err, calls, st) ==
    [res |-> <<"<raised>">>, exc |-> err, calls |-> calls, st |-> st, handed |-> NoValue]

\* Catch returning the prefix without str(e)
CatchNoDetail(prefix, o) ==
    IF o.exc # NoErr
    THEN [o EXCEPT !.res = <<prefix, "error">>, !.exc = NoErr]
    ELSE o

\* except Exception as e: return f"<prefix>: {str(e)}"
Catch(prefix, o) ==
    IF o.exc # NoErr
    THEN [o EXCEPT !.res = <<prefix, o.exc.text>>, !.exc = NoErr]
    ELSE o

(***************************************************************************)
(* The container engine behind _client (docker-py and the daemon)          *)
(***************************************************************************)
Statuses == {"created", "running", "exited", "paused"}
Names == {"web1", "db"}
Images == {"nginx:latest", "ghost:1"}
\* images a registry serves
Pullable == {"nginx:latest"}
\* the paths that exist inside every container
ContainerFiles == {"/workspace/plot.png"}

\* A result of an engine call: the exception raised (or NoErr), the state
\* left and the value returned.
EngineOk(st, val) == [err |-> NoErr, st |-> st, val |-> val]
EngineErr(err, st) == [err |-> err, st |-> st, val |-> 0]

\* the id a name refers to (0: none)
IdOf(cs, ref) ==
    IF \E i \in DOMAIN cs : cs[i].name = ref
    THEN CHOOSE i \in DOMAIN cs : cs[i].name = ref
    ELSE 0

\* _client.containers.get(ref)
ContainersGet(st, ref, fail) ==
    IF fail THEN EngineErr(DaemonError, st)
    ELSE IF IdOf(st.cs, ref) = 0 THEN EngineErr(NotFound("container"), st)
    ELSE EngineOk(st, IdOf(st.cs, ref))

SetStatus(st, id, status) == [st EXCEPT !.cs[id].status = status]

\* container.start()
ContainerStart(st, id, fail) ==
    IF fail THEN EngineErr(DaemonError, st)
    ELSE IF st.cs[id].status = "paused"
         THEN EngineErr(Conflict("cannot start a paused container"), st)
    ELSE EngineOk(SetStatus(st, id, "running"), 0)

\* container.stop(): stopping a container that is not running changes nothing
ContainerStop(st, id, fail) ==
    IF fail THEN EngineErr(DaemonError, st)
    ELSE IF st.cs[id].status \in {"running", "paused"}
         THEN EngineOk(SetStatus(st, id, "exited"), 0)
    ELSE EngineOk(st, 0)

\* container.restart()
ContainerRestart(st, id, fail) ==
    IF fail THEN EngineErr(DaemonError, st)
    ELSE EngineOk(SetStatus(st, id, "running"), 0)

\* container.remove(): refused for a container that runs
ContainerRemove(st, id, fail) ==
    IF fail THEN EngineErr(DaemonError, st)
    ELSE IF st.cs[id].status \in {"running", "paused"}
         THEN EngineErr(Conflict("cannot remove a running container"), st)
    ELSE EngineOk([st EXCEPT !.cs = [i \in DOMAIN st.cs \ {id} |-> st.cs[i]],
                             !.rem = st.rem \cup {id}], 0)

\* the name the engine gives a container created without one
AutoName(id) == "auto_" \o ToString(id)

\* _client.containers.run(image, name=, ports=, command=, detach=True)
ContainersRun(st, image, name, ports, fail) ==
    IF fail THEN EngineErr(DaemonError, st)
    ELSE IF Truthy(ports) /\ ports.type # "dict"
         THEN EngineErr(Err("AttributeError", "object has no attribute 'items'"), st)
    ELSE IF image \notin st.imgs /\ image \notin Pullable
         THEN EngineErr(NotFound("image"), st)
    ELSE IF name # None /\ IdOf(st.cs, name) # 0
         THEN EngineErr(Conflict("name already in use"), st)
    ELSE LET id == st.nid
             c == [name |-> IF name = None THEN AutoName(id) ELSE name,
                   status |-> "running",
                   ports |-> IF ports.type = "dict" THEN ports.items ELSE <<>>,
                   image |-> image]
         IN  EngineOk([st EXCEPT
                 !.cs = [i \in DOMAIN st.cs \cup {id} |->
                            IF i = id THEN c ELSE st.cs[i]],
                 !.nid = id + 1,
                 !.imgs = st.imgs \cup {image}], id)

\* the ids of s in increasing order
RECURSIVE SortedIds(_)
SortedIds(s) ==
    IF s = {} THEN <<>>
    ELSE LET m == CHOOSE x \in s : \A y \in s : x <= y
         IN  <<m>> \o SortedIds(s \ {m})

\* _client.containers.list(all=all)
ContainersList(st, all, fail) ==
    IF fail THEN EngineErr(DaemonError, st)
    ELSE EngineOk(st, SortedIds({i \in DOMAIN st.cs :
                                    all \/ st.cs[i].status = "running"}))

\* container.logs(tail=lines)
ContainerLogs(st, id, lines, fail) ==
    IF fail THEN EngineErr(DaemonError, st)
    ELSE EngineOk(st, <<"log lines", st.cs[id].name, lines>>)

\* _client.images.list()
ImagesList(st, fail) ==
    IF fail THEN EngineErr(DaemonError, st)
    ELSE EngineOk(st, st.imgs)

\* _client.images.pull(image_name)
ImagesPull(st, image_name, fail) ==
    IF fail THEN EngineErr(DaemonError, st)
    ELSE IF image_name \notin Pullable THEN EngineErr(NotFound("image"), st)
    ELSE EngineOk([st EXCEPT !.imgs = st.imgs \cup {image_name}], image_name)

\* _client.images.remove(image_name, force=force)
ImagesRemove(st, image_name, force, fail) ==
    IF fail THEN EngineErr(DaemonError, st)
    ELSE IF image_name \notin st.imgs THEN EngineErr(NotFound("image"), st)
    ELSE IF ~force /\ \E i \in DOMAIN st.cs : st.cs[i].image = image_name
         THEN EngineErr(Conflict("image is being used"), st)
    ELSE EngineOk([st EXCEPT !.imgs = st.imgs \ {image_name}], 0)

\* _client.images.prune(filters={'dangling': True})
ImagesPrune(st, fail) ==
    IF fail THEN EngineErr(DaemonError, st) ELSE EngineOk(st, 0)

\* container.get_archive(src_path)
GetArchive(st, id, src_path, fail) ==
    IF fail THEN EngineErr(DaemonError, st)
    ELSE IF src_path \notin ContainerFiles THEN EngineErr(NotFound("path"), st)
    ELSE EngineOk(st, src_path)

\* container.exec_run(command, workdir=, demux=True): (exit_code, (stdout, stderr))
ExecRunCall(st, id, command, output, fail) ==
    IF fail THEN EngineErr(DaemonError, st)
    ELSE IF st.cs[id].status # "running"
         THEN EngineErr(Conflict("container is not running"), st)
    ELSE EngineOk(st, output)

(***************************************************************************)
(* The local filesystem                                                    *)
(***************************************************************************)
\* os.path.basename(src_path)
Basename(src_path) ==
    IF src_path = "/workspace/plot.png" THEN "plot.png"
    ELSE IF src_path = "/no/such/file" THEN "file"
    ELSE src_path

\* os.makedirs(local_dir, exist_ok=True)
MakeDirs(st, fail) ==
    IF fail THEN EngineErr(OSError("/AstrBot/data/data_temp"), st)
    ELSE EngineOk([st EXCEPT !.dx = TRUE], 0)

\* tarfile.open(fileobj=file_obj) ... tar.extractall(path=local_dir)
ExtractAll(st, src_path, fail) ==
    IF fail THEN EngineErr(OSError("extract"), st)
    ELSE EngineOk([st EXCEPT !.fl = st.fl \cup {Basename(src_path)}], 0)

(***************************************************************************)
(* tools/docker_tool.py: the facade tools                                  *)
(***************************************************************************)
\* the texts with no interpolated value
NotConnectedText == <<"Docker service not connected, check /var/run/docker.sock">>
EmptyText == <<>>

\* _check_client that never reports the missing handle
CheckClientAlwaysOk == EmptyText

\* _check_client()
CheckClient == IF ~client THEN NotConnectedText ELSE EmptyText

\* the ports column computed for a container of the list
PortsLabel(ports) ==
    IF Len(ports) = 0 THEN << <<"-">> >>
    ELSE [i \in 1..Len(ports) |-> <<ports[i][1], "->", ports[i][2]>>]

\* the lines appended to the report for one container
ListEntry(cs, id) ==
    LET c == cs[id]
        status_icon == IF c.status = "running" THEN "green" ELSE "red"
        ports == PortsLabel(c.ports)
    IN  [icon |-> status_icon, name |-> c.name, ID |-> id,
         Stat |-> c.status, img |-> c.image]

\* the try block of docker_list_containers; the image tag of each container
\* is looked up through the engine (c.image)
ListBody(all, faults) ==
    LET l == ContainersList(Cur, all, 1 \in faults)
        c1 == <<Call("containers.list", l.err)>>
    IN  IF l.err # NoErr THEN Raise(l.err, c1, l.st)
        ELSE IF Len(l.val) = 0 THEN Return(<<"no containers">>, c1, l.st)
        ELSE IF 2 \in faults
             THEN Raise(DaemonError, c1 \o <<Call("images.get", DaemonError)>>, l.st)
        ELSE Return(<<"container list", Len(l.val),
                      [i \in 1..Len(l.val) |-> ListEntry(l.st.cs, l.val[i])]>>,
                    c1 \o <<Call("images.get", NoErr)>>, l.st)

docker_list_containers(all, faults) ==
    IF CheckClient # EmptyText THEN Return(CheckClient, <<>>, Cur)
    ELSE Catch("query failed", ListBody(all, faults))

\* RemoveBranch whose stop is not wrapped in try / except
RemoveBranchStrictStop(st, id, name, c1, faults) ==
    LET s == ContainerStop(st, id, 2 \in faults)
        c2 == c1 \o <<Call("container.stop", s.err)>>
        r == ContainerRemove(s.st, id, 3 \in faults)
        c3 == c2 \o <<Call("container.remove", r.err)>>
    IN  IF s.err # NoErr THEN Raise(s.err, c2, s.st)
        ELSE IF r.err # NoErr THEN Raise(r.err, c3, r.st)
        ELSE Return(<<"container removed", name>>, c3, r.st)

\* the branch of docker_container_action for "remove"
RemoveBranch(st, id, name, c1, faults) ==
    LET s == ContainerStop(st, id, 2 \in faults)      \* try: ... except: pass
        c2 == c1 \o <<Call("container.stop", s.err)>>
        r == ContainerRemove(s.st, id, 3 \in faults)
        c3 == c2 \o <<Call("container.remove", r.err)>>
    IN  IF r.err # NoErr THEN Raise(r.err, c3, r.st)
        ELSE Return(<<"container removed", name>>, c3, r.st)

\* Dispatch whose last branch is an else: any other verb removes
DispatchElseRemove(st, id, action, c1, faults) ==
    LET name == st.cs[id].name IN
    IF action = "start" THEN
        LET r == ContainerStart(st, id, 2 \in faults)
            c2 == c1 \o <<Call("container.start", r.err)>>
        IN  IF r.err # NoErr THEN Raise(r.err, c2, r.st)
            ELSE Return(<<"container started", name>>, c2, r.st)
    ELSE IF action = "stop" THEN
        LET r == ContainerStop(st, id, 2 \in faults)
            c2 == c1 \o <<Call("container.stop", r.err)>>
        IN  IF r.err # NoErr THEN Raise(r.err, c2, r.st)
            ELSE Return(<<"container stopped", name>>, c2, r.st)
    ELSE IF action = "restart" THEN
        LET r == ContainerRestart(st, id, 2 \in faults)
            c2 == c1 \o <<Call("container.restart", r.err)>>
        IN  IF r.err # NoErr THEN Raise(r.err, c2, r.st)
            ELSE Return(<<"container restarted", name>>, c2, r.st)
    ELSE RemoveBranch(st, id, name, c1, faults)

\* the if / elif chain of docker_container_action on the resolved container
Dispatch(st, id, action, c1, faults) ==
    LET name == st.cs[id].name IN
    IF action = "start" THEN
        LET r == ContainerStart(st, id, 2 \in faults)
            c2 == c1 \o <<Call("container.start", r.err)>>
        IN  IF r.err # NoErr THEN Raise(r.err, c2, r.st)
            ELSE Return(<<"container started", name>>, c2, r.st)
    ELSE IF action = "stop" THEN
        LET r == ContainerStop(st, id, 2 \in faults)
            c2 == c1 \o <<Call("container.stop", r.err)>>
        IN  IF r.err # NoErr THEN Raise(r.err, c2, r.st)
            ELSE Return(<<"container stopped", name>>, c2, r.st)
    ELSE IF action = "restart" THEN
        LET r == ContainerRestart(st, id, 2 \in faults)
            c2 == c1 \o <<Call("container.restart", r.err)>>
        IN  IF r.err # NoErr THEN Raise(r.err, c2, r.st)
            ELSE Return(<<"container restarted", name>>, c2, r.st)
    ELSE IF action = "remove" THEN RemoveBranch(st, id, name, c1, faults)
    ELSE Return(<<"unknown operation", action>>, c1, st)

\* the try block of docker_container_action
ActionBody(container_name, action, faults) ==
    LET g == ContainersGet(Cur, container_name, 1 \in faults)
        c1 == <<Call("containers.get", g.err)>>
    IN  IF g.err # NoErr THEN Raise(g.err, c1, g.st)
        ELSE Dispatch(g.st, g.val, action, c1, faults)

docker_container_action(container_name, action, faults) ==
    IF CheckClient # EmptyText THEN Return(CheckClient, <<>>, Cur)
    ELSE Catch("operation failed", ActionBody(container_name, action, faults))

\* The ports argument as ast.parse sees it: None, or a string with the
\* syntax tree of its text.
Ast(node, size, items) == [node |-> node, size |-> size, items |-> items]

\* if ports: (None and "" are false)
ArgTruthy(ports) == ports.node \notin {"None", "EmptyString"}

\* ast.literal_eval(ports): the value of a literal, an exception for
\* anything else
LiteralEval(ports) ==
    IF ports.node = "SyntaxError"
    THEN [err |-> Err("SyntaxError", "invalid syntax"), val |-> NoValue]
    ELSE IF ports.node = "Dict"
    THEN [err |-> NoErr, val |-> Value("dict", ports.size, ports.items)]
    ELSE IF ports.node = "List"
    THEN [err |-> NoErr, val |-> Value("list", ports.size, <<>>)]
    ELSE IF ports.node = "Constant"
    THEN [err |-> NoErr, val |-> Value("int", ports.size, <<>>)]
    ELSE [err |-> Err("ValueError", "malformed node or string"), val |-> NoValue]

\* the try block of docker_run_container
RunBody(image, name, ports, command, faults) ==
    LET parsed == IF ArgTruthy(ports) THEN LiteralEval(ports)
                  ELSE [err |-> NoErr, val |-> Value("dict", 0, <<>>)]
    IN  IF parsed.err # NoErr THEN Return(<<"port format error">>, <<>>, Cur)
        ELSE LET r == ContainersRun(Cur, image, name, parsed.val, 1 \in faults)
                 c1 == <<Call("containers.run", r.err)>>
             IN  IF r.err # NoErr
                 THEN [Raise(r.err, c1, r.st) EXCEPT !.handed = parsed.val]
                 ELSE [Return(<<"container created", r.st.cs[r.val].name, r.val>>,
                              c1, r.st) EXCEPT !.handed = parsed.val]

docker_run_container(image, name, ports, command, faults) ==
    IF CheckClient # EmptyText THEN Return(CheckClient, <<>>, Cur)
    ELSE Catch("create failed", RunBody(image, name, ports, command, faults))

\* the try block of docker_inspect_container
InspectBody(container_name, faults) ==
    LET g == ContainersGet(Cur, container_name, 1 \in faults)
        c1 == <<Call("containers.get", g.err)>>
    IN  IF g.err # NoErr THEN Raise(g.err, c1, g.st)
        ELSE LET c == g.st.cs[g.val]
                 info == [ID |-> g.val, Image |-> c.image, Status |-> c.status]
             IN  Return(<<"container details", c.name, info>>, c1, g.st)

docker_inspect_container(container_name, faults) ==
    IF CheckClient # EmptyText THEN Return(CheckClient, <<>>, Cur)
    ELSE Catch("inspect failed", InspectBody(container_name, faults))

\* the try block of docker_get_logs
LogsBody(container_name, lines, faults) ==
    LET g == ContainersGet(Cur, container_name, 1 \in faults)
        c1 == <<Call("containers.get", g.err)>>
    IN  IF g.err # NoErr THEN Raise(g.err, c1, g.st)
        ELSE LET l == ContainerLogs(g.st, g.val, lines, 2 \in faults)
                 c2 == c1 \o <<Call("container.logs", l.err)>>
             IN  IF l.err # NoErr THEN Raise(l.err, c2, l.st)
                 ELSE Return(<<"logs", l.st.cs[g.val].name, l.val>>, c2, l.st)

docker_get_logs(container_name, lines, faults) ==
    IF CheckClient # EmptyText THEN Return(CheckClient, <<>>, Cur)
    ELSE Catch("Log Error", LogsBody(container_name, lines, faults))

\* the try block of docker_list_images
ListImagesBody(faults) ==
    LET l == ImagesList(Cur, 1 \in faults)
        c1 == <<Call("images.list", l.err)>>
    IN  IF l.err # NoErr THEN Raise(l.err, c1, l.st)
        ELSE IF l.val = {} THEN Return(<<"no images">>, c1, l.st)
        ELSE Return(<<"image list", l.val>>, c1, l.st)

docker_list_images(faults) ==
    IF CheckClient # EmptyText THEN Return(CheckClient, <<>>, Cur)
    ELSE Catch("Error", ListImagesBody(faults))

\* the try block of docker_pull_image
PullBody(image_name, faults) ==
    LET r == ImagesPull(Cur, image_name, 1 \in faults)
        c1 == <<Call("images.pull", r.err)>>
    IN  IF r.err # NoErr THEN Raise(r.err, c1, r.st)
        ELSE Return(<<"pulled", r.val>>, c1, r.st)

docker_pull_image(image_name, faults) ==
    IF CheckClient # EmptyText THEN Return(CheckClient, <<>>, Cur)
    ELSE Catch("pull failed", PullBody(image_name, faults))

\* the try block of docker_delete_image
DeleteBody(image_name, force, faults) ==
    LET r == ImagesRemove(Cur, image_name, force, 1 \in faults)
        c1 == <<Call("images.remove", r.err)>>
    IN  IF r.err # NoErr THEN Raise(r.err, c1, r.st)
        ELSE Return(<<"image deleted", image_name>>, c1, r.st)

docker_delete_image(image_name, force, faults) ==
    IF CheckClient # EmptyText THEN Return(CheckClient, <<>>, Cur)
    ELSE Catch("delete failed", DeleteBody(image_name, force, faults))

\* the try block of docker_reset_image
ResetBody(image_name, faults) ==
    LET r == ImagesPull(Cur, image_name, 1 \in faults)
        c1 == <<Call("images.pull", r.err)>>
    IN  IF r.err # NoErr THEN Raise(r.err, c1, r.st)
        ELSE LET q == ImagesPrune(r.st, 2 \in faults)   \* try: ... except: pass
                 c2 == c1 \o <<Call("images.prune", q.err)>>
             IN  Return(<<"image reset", image_name>>, c2, q.st)

docker_reset_image(image_name, faults) ==
    IF CheckClient # EmptyText THEN Return(CheckClient, <<>>, Cur)
    ELSE Catch("reset failed", ResetBody(image_name, faults))

\* local_dir
LocalDir == "/AstrBot/data/data_temp"

\* the try block of docker_copy_from_container; io names the filesystem
\* calls that fail
CopyBody(container_name, src_path, faults, io) ==
    LET g == ContainersGet(Cur, container_name, 1 \in faults)
        c1 == <<Call("containers.get", g.err)>>
    IN  IF g.err # NoErr THEN Raise(g.err, c1, g.st)
        ELSE
        LET m == IF ~g.st.dx THEN MakeDirs(g.st, "makedirs" \in io)
                 ELSE EngineOk(g.st, 0)
            c2 == IF ~g.st.dx THEN c1 \o <<Call("os.makedirs", m.err)>> ELSE c1
        IN  IF m.err # NoErr THEN Raise(m.err, c2, m.st)
            ELSE
            LET a == GetArchive(m.st, g.val, src_path, 2 \in faults)
                c3 == c2 \o <<Call("container.get_archive", a.err)>>
            IN  IF a.err.cls = "NotFound"            \* except docker.errors.NotFound
                THEN Return(<<"file not found in container", src_path>>, c3, a.st)
                ELSE IF a.err # NoErr THEN Raise(a.err, c3, a.st)
                ELSE
                LET x == ExtractAll(a.st, src_path, "extract" \in io)
                    c4 == c3 \o <<Call("tar.extractall", x.err)>>
                IN  IF x.err # NoErr THEN Raise(x.err, c4, x.st)
                    ELSE Return(<<"file extracted", LocalDir, Basename(src_path)>>,
                                c4, x.st)

docker_copy_from_container(container_name, src_path, faults, io) ==
    IF CheckClient # EmptyText THEN Return(CheckClient, <<>>, Cur)
    ELSE Catch("extract failed", CopyBody(container_name, src_path, faults, io))

\* what exec_run returns: the exit code and the two demultiplexed streams
ExecOutput(exit_code, stdout, stderr) ==
    [exit_code |-> exit_code, stdout |-> stdout, stderr |-> stderr]

\* the report built from exit_code, stdout and stderr
ExecText(out) ==
    <<"exec result", out.exit_code>>
    \o (IF out.stdout # "" THEN <<"Stdout", out.stdout>> ELSE <<>>)
    \o (IF out.stderr # "" THEN <<"Stderr", out.stderr>> ELSE <<>>)
    \o (IF out.stdout = "" /\ out.stderr = "" THEN <<"(no output)">> ELSE <<>>)

\* NotRunning that only knows the exited status
NotRunningOnlyExited(status) == status = "exited"

\* container.status != 'running'
NotRunning(status) == status # "running"

\* the try block of docker_exec_run
ExecBody(container_name, command, workdir, output, faults) ==
    LET g == ContainersGet(Cur, container_name, 1 \in faults)
        c1 == <<Call("containers.get", g.err)>>
    IN  IF g.err # NoErr THEN Raise(g.err, c1, g.st)
        ELSE IF NotRunning(g.st.cs[g.val].status)
             THEN Return(<<"container not running", g.st.cs[g.val].name>>, c1, g.st)
        ELSE LET r == ExecRunCall(g.st, g.val, command, output, 2 \in faults)
                 c2 == c1 \o <<Call("container.exec_run", r.err)>>
             IN  IF r.err # NoErr THEN Raise(r.err, c2, r.st)
                 ELSE Return(ExecText(r.val), c2, r.st)

docker_exec_run(container_name, command, workdir, output, faults) ==
    IF CheckClient # EmptyText THEN Return(CheckClient, <<>>, Cur)
    ELSE Catch("exec failed", ExecBody(container_name, command, workdir, output, faults))

\* pip_cmd
PipCmd(packages) ==
    "pip install " \o packages \o " -i https://pypi.tuna.tsinghua.edu.cn/simple"
    \o " --default-timeout=100 --trusted-host pypi.tuna.tsinghua.edu.cn"

docker_pip_install(container_name, packages, output, faults) ==
    IF CheckClient # EmptyText THEN Return(CheckClient, <<>>, Cur)
    ELSE docker_exec_run(container_name, PipCmd(packages), None, output, faults)

(***************************************************************************)
(* The dispatcher: one tool invocation at a time                           *)
(***************************************************************************)
\* the values the dispatcher passes
Actions == {"start", "stop", "restart", "remove", "pause"}
SrcPaths == {"/workspace/plot.png", "/no/such/file"}
Commands == {"echo hi"}
Packages == {"pandas numpy"}
PortsArgs == { Ast("None", 0, <<>>),                        \* ports=None
               Ast("EmptyString", 0, <<>>),                 \* ""
               Ast("Dict", 1, << <<"80/tcp", "8080">> >>),  \* "{'80/tcp': 8080}"
               Ast("Dict", 0, <<>>),                        \* "{}"
               Ast("Expr", 0, <<>>),                        \* "not-a-mapping"
               Ast("SyntaxError", 0, <<>>),                 \* "{'80/tcp': "
               Ast("Constant", 8080, <<>>),                 \* "8080"
               Ast("List", 1, <<>>),                        \* "['80/tcp']"
               Ast("List", 0, <<>>) }                       \* "[]"
ExecOutputs == { ExecOutput(0, "", ""), ExecOutput(1, "hi", "boom") }

\* The engine calls of an invocation that fail with a daemon error, by
\* position; n is the most calls the tool makes. A failed call ends the
\* invocation, so one position is drawn, except where the failure is
\* swallowed (the stop of "remove") and a later call can fail too.
Faults(n) == {{}} \cup {{i} : i \in 1..n}
RemoveFaults == Faults(3) \cup {{2, 3}}
IoFaults == {{}, {"makedirs"}, {"extract"}}

\* the status of the container a reference names before the invocation
PreStatus(ref) ==
    IF ref = None \/ IdOf(containers, ref) = 0 THEN "none"
    ELSE containers[IdOf(containers, ref)].status

\* One invocation: the state the handler left and the record of the call.
Invoke(tool, args, ref, faults, io, o) ==
    /\ containers' = o.st.cs
    /\ nextId' = o.st.nid
    /\ removedIds' = o.st.rem
    /\ images' = o.st.imgs
    /\ dirExists' = o.st.dx
    /\ files' = o.st.fl
    /\ last' = [tool |-> tool, args |-> args, ref |-> ref, pre |-> PreStatus(ref),
                preId |-> IF ref = None THEN 0 ELSE IdOf(containers, ref),
                res |-> o.res, raised |-> o.exc # NoErr,
                calls |-> o.calls, handed |-> o.handed]
    /\ UNCHANGED <<client, loadVars>>

ListContainers ==
    \E all \in BOOLEAN, faults \in Faults(2) :
        Invoke("docker_list_containers", [all |-> all], None, faults, {},
               docker_list_containers(all, faults))

ContainerAction ==
    \E ref \in Names, action \in Actions :
    \E faults \in IF action = "remove" THEN RemoveFaults ELSE Faults(2) :
        Invoke("docker_container_action", [action |-> action], ref, faults, {},
               docker_container_action(ref, action, faults))

RunContainer ==
    /\ nextId <= MaxContainers
    /\ \E image \in Images, name \in Names \cup {None}, ports \in PortsArgs,
          faults \in Faults(1) :
        Invoke("docker_run_container",
               [image |-> image, name |-> name, ports |-> ports], None, faults, {},
               docker_run_container(image, name, ports, None, faults))

InspectContainer ==
    \E ref \in Names, faults \in Faults(1) :
        Invoke("docker_inspect_container", [x |-> 0], ref, faults, {},
               docker_inspect_container(ref, faults))

GetLogs ==
    \E ref \in Names, faults \in Faults(2) :
        Invoke("docker_get_logs", [lines |-> 50], ref, faults, {},
               docker_get_logs(ref, 50, faults))

ListImages ==
    \E faults \in Faults(1) :
        Invoke("docker_list_images", [x |-> 0], None, faults, {},
               docker_list_images(faults))

PullImage ==
    \E image \in Images, faults \in Faults(1) :
        Invoke("docker_pull_image", [image |-> image], None, faults, {},
               docker_pull_image(image, faults))

DeleteImage ==
    \E image \in Images, force \in BOOLEAN, faults \in Faults(1) :
        Invoke("docker_delete_image", [image |-> image, force |-> force], None,
               faults, {}, docker_delete_image(image, force, faults))

ResetImage ==
    \E image \in Images, faults \in Faults(2) :
        Invoke("docker_reset_image", [image |-> image], None, faults, {},
               docker_reset_image(image, faults))

CopyFromContainer ==
    \E ref \in Names, src_path \in SrcPaths, faults \in Faults(2),
       io \in IoFaults :
        Invoke("docker_copy_from_container", [src_path |-> src_path], ref,
               faults, io, docker_copy_from_container(ref, src_path, faults, io))

ExecRun ==
    \E ref \in Names, command \in Commands, output \in ExecOutputs,
       faults \in Faults(2) :
        Invoke("docker_exec_run", [command |-> command], ref, faults, {},
               docker_exec_run(ref, command, None, output, faults))

PipInstall ==
    \E ref \in Names, packages \in Packages, output \in ExecOutputs,
       faults \in Faults(2) :
        Invoke("docker_pip_install", [packages |-> packages], ref, faults, {},
               docker_pip_install(ref, packages, output, faults))

(***************************************************************************)
(* Specifications                                                          *)
(***************************************************************************)
NoCall == [tool |-> "none", args |-> [x |-> 0], ref |-> None, pre |-> "none", preId |-> 0, res |-> EmptyText,
           raised |-> FALSE, calls |-> <<>>, handed |-> NoValue]

\* what a tools directory holding docker_tool.py alone registers
FacadeTools ==
    {Members(DockerToolFile)[i] : i \in 2..Len(Members(DockerToolFile))}

\* the loader's state once docker_tool.py is loaded
Loaded ==
    /\ toolsDirExists = TRUE
    /\ listing = {DockerToolFile}
    /\ importOutcome = [f \in Files |-> "ok"]
    /\ badReg = [f \in Files |-> 0]
    /\ todo = {}
    /\ registered = FacadeTools
    /\ invoked = {}
    /\ imported = {QualifiedName(ModuleName(DockerToolFile))}
    /\ reported = {}
    /\ warned = FALSE
    /\ pc = "done"

\* the engine and the staging directory before any tool has been loaded
Idle ==
    /\ client = FALSE
    /\ containers = <<>>
    /\ nextId = 1
    /\ removedIds = {}
    /\ images = {}
    /\ dirExists = FALSE
    /\ files = {}
    /\ last = NoCall

\* docker.from_env() gave a handle or raised; the engine holds no container
\* or one of any status; the staging directory exists or not.
Init ==
    /\ Loaded
    /\ client \in BOOLEAN
    /\ \/ containers = <<>> /\ nextId = 1 /\ images = {}
       \/ \E status \in Statuses :
            /\ containers = [i \in {1} |-> [name |-> "web1", status |-> status,
                                           ports |-> <<>>, image |-> "nginx:latest"]]
            /\ nextId = 2
            /\ images = {"nginx:latest"}
    /\ removedIds = {}
    /\ dirExists \in BOOLEAN
    /\ files = {}
    /\ last = NoCall

Next ==
    \/ ListContainers
    \/ ContainerAction
    \/ RunContainer
    \/ InspectContainer
    \/ GetLogs
    \/ ListImages
    \/ PullImage
    \/ DeleteImage
    \/ ResetImage
    \/ CopyFromContainer
    \/ ExecRun
    \/ PipInstall

Spec == Init /\ [][Next]_vars

\* any directory content, any import outcome, any failing registration
\* (outcomes are drawn only for the modules the directory holds, and a
\* failing registration only for a module that imports)
LoadInit ==
    /\ Idle
    /\ toolsDirExists \in BOOLEAN
    /\ listing \in SUBSET Files
    /\ ~toolsDirExists => listing = {}
    /\ todo = listing
    /\ importOutcome \in [Files -> {"ok", "Exception", "BaseException"}]
    /\ \A f \in Files :
          (f \notin listing \/ ~IsCandidate(f)) => importOutcome[f] = "ok"
    /\ badReg \in [Files -> 0..5]
    /\ \A f \in Files :
          /\ badReg[f] <= Len(Members(f))
          /\ (f \notin listing \/ importOutcome[f] # "ok") => badReg[f] = 0
    /\ registered = {}
    /\ invoked = {}
    /\ imported = {}
    /\ reported = {}
    /\ warned = FALSE
    /\ pc = "start"

LoadNext ==
    \/ LoadStart
    \/ \E filename \in Files : LoadFile(filename)
    \/ LoadFinish

LoadSpec == LoadInit /\ [][LoadNext]_vars

(***************************************************************************)
(* Claims about the loader (checked under LoadSpec)                        *)
(***************************************************************************)
\* the modules of the directory the loop imports
Candidates == {f \in listing : IsCandidate(f)}

\* the functions of a module that are defined in it and are not private
OwnPublic(f) ==
    {i \in 1..Len(Members(f)) :
        /\ Members(f)[i].module = <<"tools">> \o SubSeq(f, 1, Len(f) - 1)
        /\ Members(f)[i].name[1] \notin {"_", "__"}}

\* the registration of one of the module's tools raises
RegistrationRaises(f) == badReg[f] \in OwnPublic(f)

\* the module fails to import or raises during registration
Malformed(f) == importOutcome[f] # "ok" \/ RegistrationRaises(f)

\* C2: whatever the directory holds and in whatever order it is listed, the
\* load never ends by an exception and, once it returns, every malformed
\* module has been reported and every tool of every well-formed module is
\* registered.
C2_LoaderIsolation ==
    /\ pc # "crashed"
    /\ pc = "done" =>
          \A f \in Candidates :
             /\ Malformed(f) => f \in reported
             /\ ~Malformed(f) => \A i \in OwnPublic(f) : Members(f)[i] \in registered

\* C3 as stated: after the load the registered tools are exactly the public
\* functions defined in the modules that loaded without error, and no
\* handler was called.
C3_ExactlyLoadedModules ==
    pc = "done" =>
        /\ registered = UNION {{Members(f)[i] : i \in OwnPublic(f)} :
                                 f \in {g \in Candidates : ~Malformed(g)}}
        /\ invoked = {}

\* the tools the load leaves registered: those of the modules that imported,
\* up to the one whose registration raised
ExpectedTools ==
    UNION {{Members(f)[i] : i \in {j \in OwnPublic(f) :
                                      ~RegistrationRaises(f) \/ j < badReg[f]}} :
             f \in {g \in Candidates : importOutcome[g] = "ok"}}

\* C3 (amended): after the load the registered tools are exactly the public
\* functions defined in the modules that loaded without error together
\* with, for a module whose registration raised, its public own functions
\* that come before the failing one in name order; no private or imported
\* function is ever registered and no handler is ever called.
C3_RegisteredTools ==
    /\ pc = "done" => registered = ExpectedTools
    /\ \A m \in registered :
          /\ m.name[1] \notin {"_", "__"}
          /\ \E f \in Candidates : m.module = <<"tools">> \o SubSeq(f, 1, Len(f) - 1)
    /\ invoked = {}

\* a load that returned with extra_tool.py reported after its first tool
\* was registered, beside a module that loaded whole
C3_Witness ==
    /\ pc = "done"
    /\ ExtraToolFile \in reported
    /\ Func(<<"extra_ping">>, <<"tools", "extra_tool">>) \in registered
    /\ Func(<<"extra_stat">>, <<"tools", "extra_tool">>) \notin registered
    /\ Func(<<"docker_run_container">>, <<"tools", "docker_tool">>) \in registered
    /\ InitFile \in listing

(***************************************************************************)
(* Claims about the facade (checked under Spec)                            *)
(***************************************************************************)
\* the calls of the last invocation that raised
Failed == {i \in 1..Len(last.calls) : last.calls[i].err # NoErr}

\* the text is f"<prefix>: {text}"
IsFailureText(res, prefix, text) ==
    Len(res) = 2 /\ res[1] = prefix /\ res[2] = text

\* C1: without an engine handle every tool returns the one "not connected"
\* text, calls neither the engine nor the filesystem, and leaves the
\* engine and the staging directory as they were.
C1_NotConnected ==
    /\ [](~client /\ last.tool # "none" =>
             last.res = NotConnectedText /\ last.calls = <<>> /\ ~last.raised)
    /\ [][~client => UNCHANGED <<containers, nextId, removedIds, images,
                                 dirExists, files>>]_vars

\* copy-from-container answered without a handle, the staging directory absent
C1_Witness ==
    /\ ~client
    /\ last.tool = "docker_copy_from_container"
    /\ last.res = NotConnectedText
    /\ ~dirExists

\* the prefix of the failure text of each tool
FailPrefix(tool) ==
    CASE tool = "docker_list_containers" -> "query failed"
      [] tool = "docker_container_action" -> "operation failed"
      [] tool = "docker_run_container" -> "create failed"
      [] tool = "docker_inspect_container" -> "inspect failed"
      [] tool = "docker_get_logs" -> "Log Error"
      [] tool = "docker_list_images" -> "Error"
      [] tool = "docker_pull_image" -> "pull failed"
      [] tool = "docker_delete_image" -> "delete failed"
      [] tool = "docker_reset_image" -> "reset failed"
      [] tool = "docker_copy_from_container" -> "extract failed"
      [] tool = "docker_exec_run" -> "exec failed"
      [] tool = "docker_pip_install" -> "exec failed"
      [] OTHER -> "none"

\* C4 as stated: whichever call fails, no exception leaves the tool, the
\* failed call is the last one made (no retry, nothing after it) and the
\* text returned is the tool's failure text carrying str(e).
C4_EveryFailureReported ==
    client =>
        /\ ~last.raised
        /\ \A i \in Failed :
              /\ i = Len(last.calls)
              /\ IsFailureText(last.res, FailPrefix(last.tool), last.calls[i].err.text)

\* the best-effort sub-steps: the stop of "remove" and the prune of "reset"
Swallowed(i) ==
    \/ /\ last.tool = "docker_container_action"
       /\ last.args.action = "remove"
       /\ last.calls[i].op = "container.stop"
    \/ last.calls[i].op = "images.prune"

\* C4 (amended): no exception ever leaves a tool and no failed call is made
\* again. A failure of the stop of "remove" or of the prune of "reset" is
\* ignored and the tool goes on; any other failed call is the last call of
\* the invocation, and the text returned is the tool's failure text
\* carrying str(e), except that a NotFound of get_archive returns the
\* "file not found in container" text with the path and not str(e).
C4_FailuresHandled ==
    client =>
        /\ ~last.raised
        /\ \A i \in Failed :
              IF Swallowed(i)
              THEN IF last.calls[i].op = "images.prune"
                   THEN i = Len(last.calls)
                        /\ last.res = <<"image reset", last.args.image>>
                   ELSE i < Len(last.calls)
                        /\ last.calls[i + 1].op = "container.remove"
              ELSE /\ i = Len(last.calls)
                   /\ IF last.calls[i].op = "container.get_archive"
                         /\ last.calls[i].err.cls = "NotFound"
                      THEN last.res = <<"file not found in container",
                                        last.args.src_path>>
                      ELSE IsFailureText(last.res, FailPrefix(last.tool),
                                         last.calls[i].err.text)

\* "remove" whose stop failed and was ignored and whose delete then failed
\* with a conflict that is reported
C4_Witness ==
    /\ client
    /\ last.tool = "docker_container_action"
    /\ last.args.action = "remove"
    /\ Len(last.calls) = 3
    /\ last.calls[2].err = DaemonError
    /\ last.calls[3].err.cls = "APIError"
    /\ last.res = <<"operation failed", last.calls[3].err.text>>

\* the verbs docker_container_action knows
Verbs == {"start", "stop", "restart", "remove"}

\* C5 as stated: an unknown verb gets the "unknown operation" text for every
\* reference, with no call to the engine.
C5_UnknownVerbNoEngine ==
    (client /\ last.tool = "docker_container_action" /\ last.args.action \notin Verbs)
    => /\ last.res = <<"unknown operation", last.args.action>>
       /\ last.calls = <<>>

\* C5 (amended): with an unknown verb the only engine call is the
\* containers.get that resolves the reference; when it succeeds the
\* "unknown operation" text is returned, and when it fails (no such
\* container, daemon error) the "operation failed" text with its error.
C5_UnknownVerb ==
    (client /\ last.tool = "docker_container_action" /\ last.args.action \notin Verbs)
    => /\ Ops(last.calls) = <<"containers.get">>
       /\ IF last.calls[1].err = NoErr
          THEN last.res = <<"unknown operation", last.args.action>>
          ELSE last.res = <<"operation failed", last.calls[1].err.text>>
       /\ last.pre = "none" => last.calls[1].err # NoErr
       /\ last.pre # "none" => last.calls[1].err \in {NoErr, DaemonError}
       /\ last.preId # 0 =>
             /\ last.preId \in DOMAIN containers
             /\ containers[last.preId].status = last.pre

\* "pause" on a container that runs
C5_Witness ==
    /\ client
    /\ last.tool = "docker_container_action"
    /\ last.args.action = "pause"
    /\ last.pre = "running"
    /\ last.res = <<"unknown operation", "pause">>

\* C6: a ports string that does not decode to a mapping is refused before
\* any engine call: every ports value handed to containers.run is a dict.
C6_PortsFailFast ==
    (client /\ last.tool = "docker_run_container")
    => /\ (ArgTruthy(last.args.ports) /\ last.args.ports.node # "Dict")
             => last.calls = <<>> /\ last.res = <<"port format error">>
       /\ \A i \in 1..Len(last.calls) :
             last.calls[i].op = "containers.run" => last.handed.type = "dict"

\* C7: copying a path that does not exist out of an existing container
\* returns the "not found" text and leaves the local filesystem, the
\* existence of the staging directory included, as it was (no call of the
\* invocation failing for another reason).
C7_MissingPathNoWrites ==
    [][(/\ client
        /\ last'.tool = "docker_copy_from_container"
        /\ last'.pre # "none"
        /\ last'.args.src_path \notin ContainerFiles
        /\ \A i \in 1..Len(last'.calls) :
              last'.calls[i].err.cls \in {"none", "NotFound"})
       => /\ last'.res = <<"file not found in container", last'.args.src_path>>
          /\ dirExists' = dirExists
          /\ files' = files]_vars

\* C8: a list(all=True) that directly follows a successful run with a name
\* and a port mapping shows an entry of that name, running, with the
\* mapping rendered as "p->h".
C8_RunThenList ==
    [][(/\ last.tool = "docker_run_container"
        /\ last.res[1] = "container created"
        /\ last.args.name # None
        /\ last.args.ports.node = "Dict"
        /\ last.args.ports.size > 0
        /\ last'.tool = "docker_list_containers"
        /\ last'.args.all
        /\ last'.res[1] = "container list")
       => \E i \in 1..Len(last'.res[3]) :
             LET e == last'.res[3][i] IN
             /\ e.name = last.args.name
             /\ e.Stat = "running"
             /\ "ports" \in DOMAIN e
             /\ e.ports = PortsLabel(last.args.ports.items)]_vars

\* C9: exec_run is called only on a container whose status was running when
\* it was resolved; for any other status the tool returns "not running"
\* after the one call that resolves it. The same for pip-install.
C9_ExecOnlyWhenRunning ==
    (client /\ last.tool \in {"docker_exec_run", "docker_pip_install"})
    => /\ (\E i \in 1..Len(last.calls) : last.calls[i].op = "container.exec_run")
             => last.pre = "running"
       /\ (last.pre \notin {"none", "running"} /\ last.calls[1].err = NoErr)
             => /\ last.res = <<"container not running", last.ref>>
                /\ Ops(last.calls) = <<"containers.get">>

\* pip-install on a paused container
C9_Witness ==
    /\ client
    /\ last.tool = "docker_pip_install"
    /\ last.pre = "paused"
    /\ last.res = <<"container not running", last.ref>>

\* C10: "remove" on a container that resolves always calls stop and then
\* remove, whether or not the stop failed; when the delete does not fail the
\* success text is returned and the container is gone; on a container that
\* is already stopped the delete is not refused whatever the stop did; and
\* no list ever shows a container that was removed.
C10_RemoveTolerant ==
    /\ (/\ client
        /\ last.tool = "docker_container_action"
        /\ last.args.action = "remove"
        /\ last.calls[1].err = NoErr)
       => /\ Ops(last.calls) = <<"containers.get", "container.stop", "container.remove">>
          /\ last.calls[3].err = NoErr =>
                /\ last.res = <<"container removed", last.ref>>
                /\ ~last.raised
                /\ last.preId \in removedIds
                /\ last.preId \notin DOMAIN containers
          /\ last.pre \in {"exited", "created"} =>
                last.calls[3].err \in {NoErr, DaemonError}
    /\ (last.tool = "docker_list_containers" /\ last.res[1] = "container list")
       => \A i \in 1..Len(last.res[3]) : last.res[3][i].ID \notin removedIds

\* a stopped container removed although the stop call failed
C10_Witness ==
    /\ client
    /\ last.tool = "docker_container_action"
    /\ last.args.action = "remove"
    /\ last.pre = "exited"
    /\ Len(last.calls) = 3
    /\ last.calls[2].err = DaemonError
    /\ last.res = <<"container removed", last.ref>>
    /\ last.preId \in removedIds

====
